---- MODULE Spec2Model ----
(***************************************************************************)
(* The daemon supervisor and the download command of bambooclaw-core.      *)
(*                                                                         *)
(* The repository holds two programs built from the same design:          *)
(*   "sync"   src/src-tauri/main.rs      (std::process, tauri::State)      *)
(*   "async"  src/src-tauri/src/main.rs  (tokio::process, lazy_static)     *)
(* `variant` says which program runs; `platform` says which cfg(target_os) *)
(* branch was compiled.  Both are chosen once and never change.            *)
(*                                                                         *)
(* Commands are invoked by the UI and may run concurrently (both programs  *)
(* share the handle behind a Mutex for that reason).  Every command is a   *)
(* slot of `cmd` with a program counter; one action is one step of the     *)
(* handler between two points where another command or the OS can act.     *)
(*                                                                         *)
(* Strings that are matched against each other (executable names, command  *)
(* lines, pkill patterns) are sequences of tokens, so that "contains" and  *)
(* "equals" are computed and differ.                                       *)
(***************************************************************************)
EXTENDS Integers, Sequences, FiniteSets, TLC

\* ------------------------------------------------------------ bounds
\* Command invocations per run of the supervisor: concurrent ones, and ones
\* made one after the other.
MaxCmds == 2
MaxSeq == 3
\* Concurrent commands on the async runtime, and the runtime's worker threads
\* (tokio's multi-thread runtime has one per core).
MaxLive == 3
Workers == 1
\* Chunks in a response body, and the largest chunk size.
MaxChunks == 3
MaxChunkLen == 2

VARIABLES
    variant,    \* "sync" | "async": which of the two programs
    platform,   \* "unix" | "windows": the cfg(target_os) branch compiled
    appImage,   \* the application's own executable name (tokens)
    procs,      \* the OS process table: pid -> [kind, alive, killer]
    handle,     \* Option<Child>: 0 is None, else the pid of the owned child
    lock,       \* the Mutex around the handle: 0 is free, else the holder
    cmd,        \* the command invocations: slot -> record
    scratch,    \* the temp directory the flush cleans
    dl          \* the download_binary call

vars == <<variant, platform, appImage, procs, handle, lock, cmd, scratch, dl>>

Cmds == DOMAIN cmd

\* ------------------------------------------------------ process table
\* The processes that exist before any command runs.
ForeignKinds == <<"app", "orphan", "editor">>
Pids == DOMAIN procs
PidOf(kind) == CHOOSE i \in 1 .. Len(ForeignKinds) : ForeignKinds[i] = kind
AppPid == PidOf("app")

NoProc == [kind |-> "none", alive |-> FALSE, killer |-> 0]

\* An executable name with the platform's suffix.
Exe(name) == IF platform = "windows" THEN name \o <<".exe">> ELSE name

\* bin_name / bambooclaw_bin
DaemonBin == Exe(<<"bambooclaw">>)

\* The command line of a daemon the supervisor spawns.
SpawnCmdline ==
    IF variant = "sync"
    THEN <<"~/", ".", "bambooclaw", "/">> \o DaemonBin
    ELSE DaemonBin \o <<" ", "daemon">>

\* The executable (image) name of a process.
Image(p) ==
    CASE procs[p].kind = "app"    -> Exe(appImage)
      [] procs[p].kind = "daemon" -> DaemonBin
      [] procs[p].kind = "orphan" -> DaemonBin
      [] procs[p].kind = "editor" -> Exe(<<"vim">>)
      [] OTHER                    -> <<>>

\* The full command line of a process.
Cmdline(p) ==
    CASE procs[p].kind = "app"    -> Exe(appImage)
      [] procs[p].kind = "daemon" -> SpawnCmdline
      [] procs[p].kind = "orphan" -> SpawnCmdline
      [] procs[p].kind = "editor" -> Exe(<<"vim">>) \o <<" ", "bambooclaw", ".toml">>
      [] OTHER                    -> <<>>

\* The process that started p (0: none that is still known): the daemons the
\* supervisor spawns are children of the application.
Parent(p) == IF procs[p].kind = "daemon" THEN AppPid ELSE 0

Alive == {p \in Pids : procs[p].alive}

\* pat occurs in s as a contiguous run of tokens.
Contains(s, pat) ==
    \E i \in 1 .. (Len(s) - Len(pat) + 1) : SubSeq(s, i, i + Len(pat) - 1) = pat

\* pkill -f <pattern>: every live process whose command line contains it.
PkillF(pattern) == {p \in Alive : Contains(Cmdline(p), pattern)}

\* taskkill /IM <image>: every live process with exactly that image name.
TaskkillIM(image) == {p \in Alive : Image(p) = image}

\* taskkill /T: the matched processes and the processes they started.
Tree(S) ==
    LET kids(T) == {p \in Alive : Parent(p) \in T}
    IN  S \cup kids(S) \cup kids(kids(S))

\* The table after command c has killed the processes of S.
Killed(S, c) ==
    [p \in Pids |->
        IF p \in S /\ procs[p].alive
        THEN [procs[p] EXCEPT !.alive = FALSE, !.killer = c]
        ELSE procs[p]]

\* The live processes whose executable name is exactly the daemon's.
DaemonNamed == {p \in Alive : Image(p) = DaemonBin}

\* The pid the next spawned child gets.
FreePid == CHOOSE p \in Pids : procs[p].kind = "none" /\ p > Len(ForeignKinds)
             /\ \A q \in Pids : (q > Len(ForeignKinds) /\ q < p) => procs[q].kind # "none"

SpawnCount == Cardinality({p \in Pids : procs[p].kind = "daemon"})

\* ----------------------------------------------------------- commands
Ok(m) == [ok |-> TRUE, msg |-> m]
Err(m) == [ok |-> FALSE, msg |-> m]
NoRes == [ok |-> FALSE, msg |-> "pending"]

\* op: the command; pc: where it is; res: what it returned;
\* sawHandle: the handle it found under the lock (0: None);
\* sawNamed: whether a process named like the daemon was alive at that time;
\* spawned: the pid it spawned (0: none); hits: what its kill by name matched;
\* i: the flush's position in processes_to_kill.
\* left: the handle when it returned.
\* failed: whether one of its kills or file operations failed (the code
\* drops these results; the model keeps them to compare with what is returned).
\* polled: whether a worker thread of the async runtime has taken up the
\* command's task (used where the number of workers is limited).
IdleCmd == [op |-> "none", pc |-> "idle", res |-> NoRes, sawHandle |-> 0,
            sawNamed |-> FALSE, spawned |-> 0, hits |-> {}, i |-> 0, left |-> 0,
            failed |-> FALSE, polled |-> FALSE]

AppAlive == procs[AppPid].alive

Return(c, r, h) == [cmd EXCEPT ![c].pc = "done", ![c].res = r, ![c].left = h]

Ops == IF variant = "sync" THEN {"start", "stop", "flush"} ELSE {"start", "stop"}

\* The UI invokes a command.  The sync start_daemon reads the home
\* directory before it touches the lock.
Invoke(c) ==
    /\ AppAlive
    /\ cmd[c].op = "none"
    /\ c > 1 => cmd[c - 1].op # "none"
    /\ \E op \in Ops, homeOk \in BOOLEAN :
          /\ (homeOk = FALSE) => (variant = "sync" /\ op = "start")
          /\ cmd' = IF homeOk
                    THEN [cmd EXCEPT ![c].op = op, ![c].pc = "lock"]
                    ELSE [Return(c, Err("environment variable not found"), handle)
                             EXCEPT ![c].op = op]
    /\ UNCHANGED <<variant, platform, appImage, procs, handle, lock, scratch, dl>>

\* state.0.lock() / DAEMON_PROCESS.lock(): blocks until the mutex is free.
\* (No handler panics while it holds the guard, so the mutex is never
\* poisoned and lock() does not fail.)  sawHandle and sawNamed note what the
\* command found: the handle, and whether a process named like the daemon
\* was alive.
Lock(c) ==
    /\ AppAlive
    /\ cmd[c].pc = "lock"
    /\ lock = 0
    /\ lock' = c
    /\ cmd' = [cmd EXCEPT ![c].pc = cmd[c].op,
                          ![c].sawHandle = handle,
                          ![c].sawNamed = (DaemonNamed # {})]
    /\ UNCHANGED <<variant, platform, appImage, procs, handle, scratch, dl>>

\* ------------------------------------------------------- start_daemon
\* A start_daemon that does not look at the handle before it spawns.
IsSomeSkipped(h) == FALSE

\* child_guard.is_some() / daemon_guard.is_some()
IsSome(h) == h # 0

AlreadyRunning ==
    IF variant = "sync"
    THEN Ok("Daemon is already running")
    ELSE Err("Bambooclaw daemon is already running.")

Started == IF variant = "sync" THEN Ok("Daemon started") ELSE Ok("")

SpawnFailed ==
    IF variant = "sync"
    THEN Err("Failed to start daemon")
    ELSE Err("Failed to spawn bambooclaw daemon")

\* A start_daemon that fills the handle before it knows the spawn's outcome.
RecordedBeforeSpawn(spawnOk, pid) == pid

\* let child = cmd.spawn().map_err(..)?; *child_guard = Some(child);
\* the handle is written only past the ?, so a failed spawn leaves it.
Recorded(spawnOk, pid) == IF spawnOk THEN pid ELSE handle

\* Under the lock: return if a handle is held, else spawn and record it.
\* The guard is dropped on every return.
StartDaemon(c) ==
    /\ AppAlive
    /\ cmd[c].pc = "start"
    /\ lock = c
    /\ lock' = 0
    /\ IF IsSome(handle)
       THEN /\ cmd' = Return(c, AlreadyRunning, handle)
            /\ UNCHANGED <<procs, handle>>
       ELSE \E spawnOk \in BOOLEAN :
              IF spawnOk
              THEN /\ procs' = [procs EXCEPT ![FreePid] =
                                  [kind |-> "daemon", alive |-> TRUE, killer |-> 0]]
                   /\ handle' = Recorded(spawnOk, FreePid)
                   /\ cmd' = [Return(c, Started, Recorded(spawnOk, FreePid))
                                EXCEPT ![c].spawned = FreePid]
              ELSE /\ cmd' = Return(c, SpawnFailed, Recorded(spawnOk, FreePid))
                   /\ handle' = Recorded(spawnOk, FreePid)
                   /\ UNCHANGED procs
    /\ UNCHANGED <<variant, platform, appImage, scratch, dl>>

\* -------------------------------------------------------- stop_daemon
\* sync, under the lock: pkill -f bambooclaw / taskkill /F /IM bambooclaw.exe
\* through run_shell_command, whose result is dropped (let _ =).
StopKillPattern == <<"bambooclaw">>

StopByNameTargets ==
    IF platform = "windows" THEN TaskkillIM(DaemonBin) ELSE PkillF(StopKillPattern)

StopKillByName(c) ==
    /\ AppAlive
    /\ variant = "sync"
    /\ cmd[c].pc = "stop"
    /\ lock = c
    /\ \E toolOk \in BOOLEAN :
          LET S == IF toolOk THEN StopByNameTargets ELSE {}
          IN  /\ procs' = Killed(S, c)
              /\ cmd' = [cmd EXCEPT ![c].pc = "stop_take", ![c].hits = S,
                                    ![c].failed = ~toolOk]
    /\ UNCHANGED <<variant, platform, appImage, handle, lock, scratch, dl>>

\* child_guard.take(), then child.kill() with its result dropped; a kill
\* that fails leaves the child as it is.
TakeAndKill(c, next) ==
    /\ handle' = 0
    /\ IF IsSome(handle)
       THEN \E killOk \in BOOLEAN :
              /\ procs' = IF killOk THEN Killed({handle}, c) ELSE procs
              /\ cmd' = [cmd EXCEPT ![c].pc = "wait",
                                    ![c].failed = @ \/ ~killOk]
       ELSE /\ cmd' = [cmd EXCEPT ![c].pc = next]
            /\ UNCHANGED procs

StopTake(c) ==
    /\ AppAlive
    /\ variant = "sync"
    /\ cmd[c].pc = "stop_take"
    /\ lock = c
    /\ TakeAndKill(c, "stop_ret")
    /\ UNCHANGED <<variant, platform, appImage, lock, scratch, dl>>

\* child.wait(): blocks until the taken child has exited.
Wait(c) ==
    /\ AppAlive
    /\ variant = "sync"
    /\ cmd[c].pc = "wait"
    /\ lock = c
    /\ ~procs[cmd[c].sawHandle].alive
    /\ cmd' = [cmd EXCEPT ![c].pc = IF cmd[c].op = "stop" THEN "stop_ret" ELSE "flush_unlock"]
    /\ UNCHANGED <<variant, platform, appImage, procs, handle, lock, scratch, dl>>

\* Ok("Daemon stopped"), whatever was or was not running.
StopReturn(c) ==
    /\ AppAlive
    /\ variant = "sync"
    /\ cmd[c].pc = "stop_ret"
    /\ lock = c
    /\ lock' = 0
    /\ cmd' = Return(c, Ok("Daemon stopped"), handle)
    /\ UNCHANGED <<variant, platform, appImage, procs, handle, scratch, dl>>

\* async, handle held: daemon_guard.take(), then child.kill().await (tokio:
\* start_kill, then wait).  On Err the function returns it; the child taken
\* out of the guard is dropped (kill_on_drop is not set: the process lives on).
\* The guard is held to the end of the function.
AsyncStopOwned(c) ==
    /\ AppAlive
    /\ variant = "async"
    /\ cmd[c].pc = "stop"
    /\ lock = c
    /\ IsSome(handle)
    /\ handle' = 0
    /\ \E killOk \in BOOLEAN :
          IF killOk
          THEN /\ procs' = Killed({handle}, c)
               /\ cmd' = [cmd EXCEPT ![c].pc = "kill_await"]
          ELSE /\ procs' = procs
               /\ cmd' = [cmd EXCEPT ![c].pc = "kill_failed"]
    /\ UNCHANGED <<variant, platform, appImage, lock, scratch, dl>>

\* The await completes; the function returns and drops the guard.
AsyncStopOwnedReturn(c) ==
    /\ AppAlive
    /\ variant = "async"
    /\ cmd[c].pc \in {"kill_await", "kill_failed"}
    /\ lock = c
    /\ lock' = 0
    /\ cmd' = IF cmd[c].pc = "kill_await"
              THEN Return(c, Ok(""), handle)
              ELSE Return(c, Err("Failed to kill bambooclaw daemon"), handle)
    /\ UNCHANGED <<variant, platform, appImage, procs, handle, scratch, dl>>

\* async, no handle: pkill -f "bambooclaw daemon" / taskkill /F /IM
\* bambooclaw.exe; the tool's exit status decides the result.  pkill and
\* taskkill exit with success only when a process matched and was killed.
FallbackPattern == <<"bambooclaw", " ", "daemon">>

FallbackTargets ==
    IF platform = "windows" THEN TaskkillIM(<<"bambooclaw", ".exe">>)
    ELSE PkillF(FallbackPattern)

FallbackResult(ran, S) ==
    IF platform = "windows"
    THEN IF ~ran THEN Err("Failed to run taskkill")
         ELSE IF S # {} THEN Ok("bambooclaw.exe processes terminated.")
         ELSE Err("taskkill failed")
    ELSE IF ~ran THEN Err("Failed to run pkill")
         ELSE IF S # {} THEN Ok("bambooclaw daemon processes terminated.")
         ELSE Err("pkill failed (maybe no process found?)")

AsyncStopFallback(c) ==
    /\ AppAlive
    /\ variant = "async"
    /\ cmd[c].pc = "stop"
    /\ lock = c
    /\ ~IsSome(handle)
    /\ lock' = 0
    /\ \E ran \in BOOLEAN :
          LET S == IF ran THEN FallbackTargets ELSE {}
          IN  /\ procs' = Killed(S, c)
              /\ cmd' = [Return(c, FallbackResult(ran, S), handle)
                           EXCEPT ![c].hits = S, ![c].failed = ~ran]
    /\ UNCHANGED <<variant, platform, appImage, handle, scratch, dl>>

\* ---------------------------------------------------- emergency_flush
\* The first block: lock, take, kill, wait; the guard is dropped at the
\* block's closing brace.
FlushTake(c) ==
    /\ AppAlive
    /\ variant = "sync"
    /\ cmd[c].pc = "flush"
    /\ lock = c
    /\ TakeAndKill(c, "flush_unlock")
    /\ UNCHANGED <<variant, platform, appImage, lock, scratch, dl>>

FlushUnlock(c) ==
    /\ AppAlive
    /\ variant = "sync"
    /\ cmd[c].pc = "flush_unlock"
    /\ lock = c
    /\ lock' = 0
    /\ cmd' = [cmd EXCEPT ![c].pc = "flush_kill", ![c].i = 1]
    /\ UNCHANGED <<variant, platform, appImage, procs, handle, scratch, dl>>

\* processes_to_kill
ProcessesToKill ==
    IF platform = "windows"
    THEN << <<"bambooclaw", ".exe">>, <<"python", ".exe">>, <<"python", "w", ".exe">>,
            <<"cmd", ".exe">>, <<"powershell", ".exe">> >>
    ELSE << <<"bambooclaw">>, <<"python">>, <<"python", "3">> >>

\* taskkill /F /T /IM proc  /  pkill -9 -f proc
FlushTargets(name) ==
    IF platform = "windows" THEN Tree(TaskkillIM(name)) ELSE PkillF(name)

\* A loop that gives up at the first kill that fails.
NextFlushStepAborting(i, toolOk) ==
    IF ~toolOk THEN "flush_abort"
    ELSE IF i = Len(ProcessesToKill) THEN "flush_clean" ELSE "flush_kill"

\* for proc in processes_to_kill { let _ = Command::new(..).output(); }: the
\* loop goes on to the next name, and after the last to the cleanup,
\* whatever the kill returned.
NextFlushStep(i, toolOk) ==
    IF i = Len(ProcessesToKill) THEN "flush_clean" ELSE "flush_kill"

\* One turn of the loop; the tool's output is dropped.
FlushKillName(c) ==
    /\ AppAlive
    /\ variant = "sync"
    /\ cmd[c].pc = "flush_kill"
    /\ \E toolOk \in BOOLEAN :
          LET S == IF toolOk THEN FlushTargets(ProcessesToKill[cmd[c].i]) ELSE {}
          IN  /\ procs' = Killed(S, c)
              /\ cmd' = [cmd EXCEPT ![c].i = @ + 1,
                                    ![c].pc = NextFlushStep(cmd[c].i, toolOk),
                                    ![c].failed = @ \/ ~toolOk]
    /\ UNCHANGED <<variant, platform, appImage, handle, lock, scratch, dl>>

\* windows: remove_dir_all("C:\\tmp") then create_dir_all("C:\\tmp");
\* unix: sh -c "rm -rf /tmp/bc_* /tmp/*.py ...".  Results dropped.
Cleaned(rmOk, mkOk) ==
    IF platform = "windows"
    THEN LET removed == IF rmOk
                        THEN [exists |-> FALSE, agentFiles |-> FALSE, otherFiles |-> FALSE]
                        ELSE scratch
         IN  IF mkOk THEN [removed EXCEPT !.exists = TRUE] ELSE removed
    ELSE IF rmOk THEN [scratch EXCEPT !.agentFiles = FALSE] ELSE scratch

FlushClean(c) ==
    /\ AppAlive
    /\ variant = "sync"
    /\ cmd[c].pc = "flush_clean"
    /\ \E rmOk \in BOOLEAN, mkOk \in BOOLEAN :
          /\ (platform = "unix") => mkOk
          /\ scratch' = Cleaned(rmOk, mkOk)
          /\ cmd' = [Return(c, Ok("System flushed successfully"), handle)
                       EXCEPT ![c].failed = @ \/ ~rmOk \/ ~mkOk]
    /\ UNCHANGED <<variant, platform, appImage, procs, handle, lock, dl>>

\* ------------------------------------------------------------ the OS
\* A daemon the supervisor spawned exits by itself.
DaemonExits(p) ==
    /\ procs[p].alive
    /\ procs[p].kind = "daemon"
    /\ procs' = [procs EXCEPT ![p].alive = FALSE]
    /\ UNCHANGED <<variant, platform, appImage, handle, lock, cmd, scratch, dl>>

\* ----------------------------------------------------- download_binary
(***************************************************************************)
(* dl holds one call of download_binary(url, dest) and what it acts on:    *)
(*   status, hasLen, body, failAfter  the server's response: HTTP status,  *)
(*       whether it declares a content length, the body as the sizes of    *)
(*       the chunks the stream yields, and the number of chunks delivered  *)
(*       before the transport fails (-1: it does not fail);                *)
(*   file0, fileLen  the destination file's length before the call and     *)
(*       now (-1: the file does not exist);                                *)
(*   pending, writeErr  the tokio::fs::File's write in flight.  write_all  *)
(*       on a tokio File copies the chunk into the File's buffer, starts   *)
(*       the blocking write in the background and returns; the next        *)
(*       operation on the File first waits for that write and returns its  *)
(*       error.  Only flush() waits for it otherwise, and the code never   *)
(*       calls flush: a write still in flight when the File is dropped     *)
(*       completes later, and its result is not seen by anyone.            *)
(***************************************************************************)
RECURSIVE SumSeq(_)
SumSeq(q) == IF q = <<>> THEN 0 ELSE Head(q) + SumSeq(Tail(q))

DlOk == [ok |-> TRUE, msg |-> "", args |-> <<>>]
\* format!(msg, args...): the message and the names of the values put in it.
DlErr(m, a) == [ok |-> FALSE, msg |-> m, args |-> a]

DlReturn(r) == [dl EXCEPT !.pc = "done", !.res = r]

\* res.content_length().unwrap_or(0)
ContentLength == IF dl.hasLen THEN SumSeq(dl.body) ELSE 0

\* client.get(&url).send().await
SendRequest ==
    /\ variant = "async"
    /\ dl.pc = "send"
    /\ \E sendOk \in BOOLEAN :
          dl' = IF sendOk
                THEN [dl EXCEPT !.pc = "create", !.total = ContentLength]
                ELSE DlReturn(DlErr("Failed to send request", <<"e">>))
    /\ UNCHANGED <<variant, platform, appImage, procs, handle, lock, cmd, scratch>>

\* dest_path.parent(), create_dir_all, File::create (creates or truncates).
\* The response's status is not looked at.
CreateFile ==
    /\ variant = "async"
    /\ dl.pc = "create"
    /\ \E step \in {"no parent", "mkdir failed", "create failed", "created"} :
          dl' = CASE step = "no parent" ->
                       DlReturn(DlErr("Invalid destination path", <<>>))
                  [] step = "mkdir failed" ->
                       DlReturn(DlErr("Failed to create parent directory", <<"e">>))
                  [] step = "create failed" ->
                       DlReturn(DlErr("Failed to create file at", <<"dest", "e">>))
                  [] OTHER -> [dl EXCEPT !.pc = "next", !.fileLen = 0]
    /\ UNCHANGED <<variant, platform, appImage, procs, handle, lock, cmd, scratch>>

\* stream.next().await: the next chunk, the transport's error, or the end.
NextChunk ==
    /\ variant = "async"
    /\ dl.pc = "next"
    /\ dl' = IF dl.got = dl.failAfter
             THEN DlReturn(DlErr("Error while downloading", <<"e">>))
             ELSE IF dl.got = Len(dl.body)
             THEN DlReturn(DlOk)
             ELSE [dl EXCEPT !.pc = "write", !.got = @ + 1, !.chunk = dl.body[dl.got + 1]]
    /\ UNCHANGED <<variant, platform, appImage, procs, handle, lock, cmd, scratch>>

\* file.write_all(&chunk).await, then downloaded += chunk.len().
\* The File is busy until the write in flight is over.
FileBusy == dl.pending # 0

AccumulateAssigned(downloaded, len) == len

\* downloaded += chunk.len() as u64
Accumulate(downloaded, len) == downloaded + len

WriteAll ==
    /\ variant = "async"
    /\ dl.pc = "write"
    /\ ~FileBusy
    /\ dl' = IF dl.writeErr
             THEN DlReturn(DlErr("Error writing to file", <<"e">>))
             ELSE [dl EXCEPT !.pc = "emit", !.pending = dl.chunk,
                             !.downloaded = Accumulate(@, dl.chunk)]
    /\ UNCHANGED <<variant, platform, appImage, procs, handle, lock, cmd, scratch>>

\* The File's background write ends: the bytes are in the file, or the
\* write failed and the File keeps the error for its next operation.
BackgroundWrite ==
    /\ variant = "async"
    /\ dl.pending # 0
    /\ \E diskOk \in BOOLEAN :
          dl' = IF diskOk
                THEN [dl EXCEPT !.fileLen = @ + dl.pending, !.pending = 0]
                ELSE [dl EXCEPT !.writeErr = TRUE, !.pending = 0]
    /\ UNCHANGED <<variant, platform, appImage, procs, handle, lock, cmd, scratch>>

\* (downloaded as f64 / total_size as f64 * 100.0) as u32
Percentage(downloaded, total) == IF total > 0 THEN (downloaded * 100) \div total ELSE 0

ProgressEvent ==
    [progress |-> Percentage(dl.downloaded, dl.total),
     downloaded |-> dl.downloaded, total |-> dl.total]

\* app.emit_all("download_progress", ...)
EmitProgress ==
    /\ variant = "async"
    /\ dl.pc = "emit"
    /\ \E emitOk \in BOOLEAN :
          dl' = IF emitOk
                THEN [dl EXCEPT !.pc = "next", !.events = Append(@, ProgressEvent)]
                ELSE DlReturn(DlErr("Failed to emit download_progress event", <<"e">>))
    /\ UNCHANGED <<variant, platform, appImage, procs, handle, lock, cmd, scratch>>

\* sync: run_shell_command("curl", ["-sL", "-o", dest, url]).  curl has no
\* --fail: an HTTP error's body is saved like any other and curl exits 0.
\* curl opens the output file when the first body bytes arrive; whether a
\* transfer that ends well with an empty body leaves an empty file depends on
\* the curl installed.
Received == IF dl.failAfter = -1 THEN dl.body ELSE SubSeq(dl.body, 1, dl.failAfter)

CurlExit(connected, diskOk) ==
    IF connected /\ diskOk /\ dl.failAfter = -1
    THEN DlOk
    ELSE DlErr("Command failed", <<"output.status", "stderr">>)

CurlDownload ==
    /\ variant = "sync"
    /\ dl.pc = "send"
    /\ \E ran \in BOOLEAN, connected \in BOOLEAN, diskOk \in BOOLEAN, emptyFile \in BOOLEAN :
          /\ ~ran => (connected /\ diskOk)
          /\ ~connected => diskOk
          /\ emptyFile => (ran /\ connected /\ diskOk /\ dl.body = <<>>)
          /\ dl' = IF ~ran
                   THEN DlReturn(DlErr("Failed to execute process", <<"command_name", "e">>))
                   ELSE [DlReturn(CurlExit(connected, diskOk)) EXCEPT
                           !.fileLen = IF emptyFile THEN 0
                                       ELSE IF ~connected \/ Received = <<>> THEN @
                                       ELSE IF diskOk THEN SumSeq(Received) ELSE 0,
                           !.got = IF connected THEN Len(Received) ELSE 0]
    /\ UNCHANGED <<variant, platform, appImage, procs, handle, lock, cmd, scratch>>

\* The responses a server and the transport can produce.
Bodies == UNION {[1 .. n -> 1 .. MaxChunkLen] : n \in 0 .. MaxChunks}

DlInputs ==
    {[pc |-> "send", status |-> st, hasLen |-> hl, body |-> b, failAfter |-> fa,
      file0 |-> f0, fileLen |-> f0, pending |-> 0, writeErr |-> FALSE,
      total |-> 0, downloaded |-> 0, got |-> 0, chunk |-> 0,
      events |-> <<>>, res |-> [ok |-> FALSE, msg |-> "pending", args |-> <<>>]] :
        st \in {200, 404}, hl \in BOOLEAN, b \in Bodies,
        fa \in -1 .. MaxChunks - 1, f0 \in {-1, 1}}

\* ------------------------------------------------------------- Init
AppImages == {<<"bambooclaw", "-installer">>, <<"installer">>}

NoDownload == [pc |-> "idle"]

InitProcs(present, n) ==
    [p \in 1 .. (Len(ForeignKinds) + n) |->
        IF p <= Len(ForeignKinds) /\ ForeignKinds[p] \in present
        THEN [kind |-> ForeignKinds[p], alive |-> TRUE, killer |-> 0]
        ELSE NoProc]

Init ==
    /\ variant \in {"sync", "async"}
    /\ platform \in {"unix", "windows"}
    /\ appImage \in AppImages
    /\ \E present \in SUBSET {"orphan", "editor"} :
          procs = InitProcs(present \cup {"app"}, MaxCmds)
    /\ handle = 0
    /\ lock = 0
    /\ cmd = [c \in 1 .. MaxCmds |-> IdleCmd]
    /\ scratch = [exists |-> TRUE, agentFiles |-> TRUE, otherFiles |-> TRUE]
    /\ dl = NoDownload

\* One download_binary call on every response; the supervisor is at rest.
DlInit ==
    /\ variant \in {"sync", "async"}
    /\ platform = "unix"
    /\ appImage = <<"installer">>
    /\ procs = InitProcs({"app"}, MaxCmds)
    /\ handle = 0
    /\ lock = 0
    /\ cmd = [c \in 1 .. MaxCmds |-> IdleCmd]
    /\ scratch = [exists |-> TRUE, agentFiles |-> TRUE, otherFiles |-> TRUE]
    /\ dl \in {d \in DlInputs : d.failAfter < Len(d.body)}

Next ==
    \/ \E c \in Cmds : Invoke(c)
    \/ \E c \in Cmds : Lock(c)
    \/ \E c \in Cmds : StartDaemon(c)
    \/ \E c \in Cmds : StopKillByName(c)
    \/ \E c \in Cmds : StopTake(c)
    \/ \E c \in Cmds : Wait(c)
    \/ \E c \in Cmds : StopReturn(c)
    \/ \E c \in Cmds : AsyncStopOwned(c)
    \/ \E c \in Cmds : AsyncStopOwnedReturn(c)
    \/ \E c \in Cmds : AsyncStopFallback(c)
    \/ \E c \in Cmds : FlushTake(c)
    \/ \E c \in Cmds : FlushUnlock(c)
    \/ \E c \in Cmds : FlushKillName(c)
    \/ \E c \in Cmds : FlushClean(c)
    \/ \E p \in Pids : DaemonExits(p)

Spec == Init /\ [][Next]_vars

DlNext ==
    \/ SendRequest
    \/ CreateFile
    \/ NextChunk
    \/ WriteAll
    \/ BackgroundWrite
    \/ EmitProgress
    \/ CurlDownload

DlSpec == DlInit /\ [][DlNext]_vars

\* ------------------------------------------------- one call at a time
\* The UI invokes MaxSeq commands and waits for each to return before it
\* invokes the next.  The scratch directory may be absent (C:\tmp; a unix
\* system has its /tmp), empty or in use.  The async program has no flush
\* and never touches the directory.
Quiet == \A c \in Cmds : cmd[c].pc \in {"idle", "done"}

ScratchStates ==
    {[exists |-> FALSE, agentFiles |-> FALSE, otherFiles |-> FALSE],
     [exists |-> TRUE, agentFiles |-> FALSE, otherFiles |-> FALSE],
     [exists |-> TRUE, agentFiles |-> TRUE, otherFiles |-> TRUE]}

SeqInit ==
    /\ variant \in {"sync", "async"}
    /\ platform \in {"unix", "windows"}
    /\ appImage \in AppImages
    /\ \E present \in SUBSET {"orphan", "editor"} :
          procs = InitProcs(present \cup {"app"}, MaxSeq)
    /\ handle = 0
    /\ lock = 0
    /\ cmd = [c \in 1 .. MaxSeq |-> IdleCmd]
    /\ scratch \in ScratchStates
    /\ platform = "unix" => scratch.exists
    /\ variant = "async" => (scratch.exists /\ scratch.otherFiles)
    /\ dl = NoDownload

SeqInvoke(c) == Quiet /\ Invoke(c)

SeqNext ==
    \/ \E c \in Cmds : SeqInvoke(c)
    \/ \E c \in Cmds : Lock(c)
    \/ \E c \in Cmds : StartDaemon(c)
    \/ \E c \in Cmds : StopKillByName(c)
    \/ \E c \in Cmds : StopTake(c)
    \/ \E c \in Cmds : Wait(c)
    \/ \E c \in Cmds : StopReturn(c)
    \/ \E c \in Cmds : AsyncStopOwned(c)
    \/ \E c \in Cmds : AsyncStopOwnedReturn(c)
    \/ \E c \in Cmds : AsyncStopFallback(c)
    \/ \E c \in Cmds : FlushTake(c)
    \/ \E c \in Cmds : FlushUnlock(c)
    \/ \E c \in Cmds : FlushKillName(c)
    \/ \E c \in Cmds : FlushClean(c)
    \/ \E p \in Pids : DaemonExits(p)

SeqSpec == SeqInit /\ [][SeqNext]_vars

\* ------------------------------------------- the async runtime's workers
\* #[tauri::command] async fn: each invocation is a task spawned on the
\* tokio runtime, which runs tasks on Workers threads.  A task holds its
\* worker from the poll that takes it up until it returns or is suspended
\* at an .await that is pending; DAEMON_PROCESS is a std::sync::Mutex, so a
\* task in lock() blocks its worker thread.  child.kill().await suspends the
\* task (with the guard alive) until the child has been reaped, and the task
\* goes on when a worker polls it again.  The sync program's commands are
\* plain threads.
OnWorker(c) ==
    /\ variant = "async"
    /\ cmd[c].polled
    /\ cmd[c].pc \notin {"done", "kill_await"}

FreeWorker == Cardinality({c \in Cmds : OnWorker(c)}) < Workers

Poll(c) ==
    /\ AppAlive
    /\ variant = "async"
    /\ cmd[c].pc = "lock"
    /\ ~cmd[c].polled
    /\ FreeWorker
    /\ cmd' = [cmd EXCEPT ![c].polled = TRUE]
    /\ UNCHANGED <<variant, platform, appImage, procs, handle, lock, scratch, dl>>

LiveLock(c) == (variant = "async" => cmd[c].polled) /\ Lock(c)

LiveResume(c) == (cmd[c].pc = "kill_await" => FreeWorker) /\ AsyncStopOwnedReturn(c)

\* The application is not named like the daemon and nothing else runs.
LiveInit ==
    /\ variant \in {"sync", "async"}
    /\ platform \in {"unix", "windows"}
    /\ appImage = <<"installer">>
    /\ procs = InitProcs({"app"}, MaxLive)
    /\ handle = 0
    /\ lock = 0
    /\ cmd = [c \in 1 .. MaxLive |-> IdleCmd]
    /\ scratch = [exists |-> TRUE, agentFiles |-> TRUE, otherFiles |-> TRUE]
    /\ dl = NoDownload

\* What command c can do once invoked.
LiveStep(c) ==
    \/ Poll(c)
    \/ LiveLock(c)
    \/ StartDaemon(c)
    \/ StopKillByName(c)
    \/ StopTake(c)
    \/ Wait(c)
    \/ StopReturn(c)
    \/ AsyncStopOwned(c)
    \/ LiveResume(c)
    \/ AsyncStopFallback(c)
    \/ FlushTake(c)
    \/ FlushUnlock(c)
    \/ FlushKillName(c)
    \/ FlushClean(c)

\* The child a command is waiting for in child.wait() exits (here the
\* daemon exits by itself only when it is waited for).
WaitedExits(p) ==
    /\ \E c \in Cmds : cmd[c].pc = "wait" /\ cmd[c].sawHandle = p
    /\ DaemonExits(p)

LiveNext ==
    \/ \E c \in Cmds : Invoke(c)
    \/ \E c \in Cmds : Poll(c)
    \/ \E c \in Cmds : LiveLock(c)
    \/ \E c \in Cmds : StartDaemon(c)
    \/ \E c \in Cmds : StopKillByName(c)
    \/ \E c \in Cmds : StopTake(c)
    \/ \E c \in Cmds : Wait(c)
    \/ \E c \in Cmds : StopReturn(c)
    \/ \E c \in Cmds : AsyncStopOwned(c)
    \/ \E c \in Cmds : LiveResume(c)
    \/ \E c \in Cmds : AsyncStopFallback(c)
    \/ \E c \in Cmds : FlushTake(c)
    \/ \E c \in Cmds : FlushUnlock(c)
    \/ \E c \in Cmds : FlushKillName(c)
    \/ \E c \in Cmds : FlushClean(c)
    \/ \E p \in Pids : WaitedExits(p)

\* Every thread and every runnable task gets to run, and the wait() on a
\* child returns: the child exits.
LiveFairness ==
    /\ \A c \in 1 .. MaxLive : WF_vars(LiveStep(c))
    /\ \A p \in 1 .. (Len(ForeignKinds) + MaxLive) : WF_vars(WaitedExits(p))

LiveSpec == LiveInit /\ [][LiveNext]_vars /\ LiveFairness
\* ============================================================ claims
Started1(c) == cmd[c].op = "start" /\ cmd[c].pc = "done"
Stopped1(c) == cmd[c].op = "stop" /\ cmd[c].pc = "done"

\* No stop and no flush has been invoked: only start() calls so far.
OnlyStarts == \A c \in Cmds : cmd[c].op \in {"none", "start"}

\* C1: in a run of start() calls with no stop() (and no flush()) the
\* supervisor spawns at most one daemon: a call that finds the handle held
\* spawns nothing, and once a call has returned "started" or "already
\* running" exactly one daemon has been spawned.
C1_OneSpawn ==
    OnlyStarts =>
        /\ SpawnCount <= 1
        /\ \A c \in Cmds :
              Started1(c) =>
                 /\ (cmd[c].sawHandle # 0 => cmd[c].spawned = 0)
                 /\ (cmd[c].res \in {Started, AlreadyRunning} => SpawnCount = 1)

\* Two start() calls have returned, the first spawned, the second did not.
C1_Witness ==
    /\ OnlyStarts
    /\ \E c, d \in Cmds :
          /\ Started1(c) /\ cmd[c].spawned # 0
          /\ Started1(d) /\ cmd[d].sawHandle = cmd[c].spawned /\ cmd[d].spawned = 0
    /\ SpawnCount = 1

\* C2: a start() that finds the handle held returns a success saying the
\* daemon is already running, never an error.
C2_AlreadyRunningIsSuccess ==
    \A c \in Cmds :
        (Started1(c) /\ cmd[c].sawHandle # 0) => cmd[c].res.ok

\* C3: the kills of one command never interleave with another command's
\* spawn: a process recorded as the supervisor's handle is only ever killed by
\* the command that holds the lock (so a flush cannot kill the daemon a
\* concurrent start spawned and recorded while the flush was in progress).
C3_KillsUnderLock ==
    \A p \in Pids :
        (handle = p /\ procs[p].killer # 0) => lock = procs[p].killer

\* C4: stop() with no handle and no process named like the daemon in the
\* table returns a non-error result and leaves the supervisor Stopped
\* (stated for the calls whose kill tool could be run at all).
ToolDidNotRun == {Err("Failed to run pkill"), Err("Failed to run taskkill")}

C4_StopNothingIsNotAnError ==
    \A c \in Cmds :
        (Stopped1(c) /\ cmd[c].sawHandle = 0 /\ ~cmd[c].sawNamed
           /\ cmd[c].res \notin ToolDidNotRun) =>
            (cmd[c].res.ok /\ cmd[c].left = 0)

\* C5: start() with no handle while a process named like the daemon is alive
\* adopts it: it spawns nothing and returns the already-running success.
C5_StartAdoptsRunningDaemon ==
    \A c \in Cmds :
        (Started1(c) /\ cmd[c].sawHandle = 0 /\ cmd[c].sawNamed
           /\ cmd[c].res # SpawnFailed) =>
            (cmd[c].spawned = 0 /\ cmd[c].res = Ok("Daemon is already running"))

\* C6: flush() never kills a process whose executable name is the
\* application's own image name.
C6_FlushSparesTheApp ==
    \A p \in Pids :
        (procs[p].kind # "none" /\ Image(p) = Exe(appImage)) =>
            (procs[p].killer = 0 \/ cmd[procs[p].killer].op # "flush")

\* C7: after stop() has returned on a supervisor that held a handle, success
\* or error, that process has ended, the handle is released and the
\* supervisor is Stopped.
C7_StopEndsOwnedProcess ==
    \A c \in Cmds :
        (Stopped1(c) /\ cmd[c].sawHandle # 0) =>
            (~procs[cmd[c].sawHandle].alive /\ cmd[c].left = 0)

\* The download's declared total, and whether the whole body arrives.
WholeBodyArrives == dl.failAfter = -1

\* C8: for a body of chunks s1..sk with declared total N = s1+..+sk, every
\* emitted `downloaded` is the running sum of the chunks so far, the last one
\* is N, and when the fetch has returned success the file holds N bytes.
C8_DownloadComplete ==
    (variant = "async" /\ dl.status = 200 /\ dl.hasLen /\ WholeBodyArrives) =>
        /\ \A i \in 1 .. Len(dl.events) :
              dl.events[i].downloaded = SumSeq(SubSeq(dl.body, 1, i))
        /\ (dl.pc = "done" /\ dl.res.ok) =>
              /\ Len(dl.events) = Len(dl.body)
              /\ dl.events # <<>> => dl.events[Len(dl.events)].downloaded = SumSeq(dl.body)
              /\ dl.fileLen = SumSeq(dl.body)

\* C9: a response with a non-success status ends in an error before any
\* byte is written: the file is neither created nor truncated nor written,
\* and no progress event is emitted.
C9_HttpErrorWritesNothing ==
    dl.pc # "idle" /\ dl.status # 200 =>
        /\ dl.fileLen = dl.file0
        /\ dl.pending = 0
        /\ dl.events = <<>>
        /\ dl.pc = "done" => ~dl.res.ok

\* C10: when the transport fails after m bytes, the fetch stops there, the
\* file holds exactly m bytes, and the error carries the offset reached.
C10_TransportFailure ==
    (variant = "async" /\ dl.pc = "done" /\ dl.failAfter # -1 /\ dl.got = dl.failAfter
       /\ dl.res.msg = "Error while downloading") =>
        /\ ~dl.res.ok
        /\ Len(dl.events) = dl.got
        /\ dl.fileLen = SumSeq(Received)
        /\ \E k \in 1 .. Len(dl.res.args) : dl.res.args[k] = "downloaded"
\* C11: in a download whose total is known (non-zero) every progress event
\* has downloaded <= total, and from one event to the next the downloaded
\* counter never decreases, whatever chunks the response is cut into.
C11_DownloadedWithinTotal ==
    variant = "async" /\ dl.pc # "idle" =>
        /\ dl.total # 0 => dl.downloaded <= dl.total
        /\ \A i \in 1 .. Len(dl.events) :
              /\ dl.events[i].total # 0 =>
                    dl.events[i].downloaded <= dl.events[i].total
              /\ i > 1 => dl.events[i - 1].downloaded <= dl.events[i].downloaded

\* A known total reached by the last of several events.
C11_Witness ==
    /\ variant = "async"
    /\ dl.pc = "done"
    /\ dl.total # 0
    /\ Len(dl.events) >= 2
    /\ dl.events[Len(dl.events)].downloaded = dl.total
    /\ dl.events[1].downloaded < dl.total

\* C12: a response without content-length reports total = 0 in every
\* progress event, and when its whole body arrives and the download returns
\* success, every streamed byte is in the destination file.
C12_UnknownTotal ==
    (variant = "async" /\ dl.pc # "idle" /\ ~dl.hasLen) =>
        /\ \A i \in 1 .. Len(dl.events) : dl.events[i].total = 0
        /\ (dl.pc = "done" /\ dl.res.ok /\ dl.status = 200) =>
              dl.fileLen = SumSeq(dl.body)

\* The command invoked last, once it has returned.
LastDone(c) ==
    /\ cmd[c].pc = "done"
    /\ \A d \in Cmds : d > c => cmd[d].op = "none"

ScratchReset == scratch.exists /\ ~scratch.agentFiles /\ ~scratch.otherFiles

\* C13: after a flush() has returned, be it the first or one that follows
\* another flush(), the scratch directory exists and is empty, whatever it
\* was before (here: when none of the flush's own sub-steps failed).
C13_FlushResetsScratch ==
    \A c \in Cmds :
        (cmd[c].op = "flush" /\ LastDone(c) /\ ~cmd[c].failed) => ScratchReset

\* C14: a flush() in which a kill or a file operation failed does not
\* return the plain success.
C14_FlushReportsFailures ==
    \A c \in Cmds :
        (cmd[c].op = "flush" /\ cmd[c].pc = "done" /\ cmd[c].failed) =>
            cmd[c].res # Ok("System flushed successfully")

\* The order of flush()'s sub-steps: a is the command before a step of it,
\* b after.
FlushSucc(a, b) ==
    \/ a.pc = "lock" /\ b.pc = "flush"
    \/ a.pc = "flush" /\ b.pc \in {"wait", "flush_unlock"}
    \/ a.pc = "wait" /\ b.pc = "flush_unlock"
    \/ a.pc = "flush_unlock" /\ b.pc = "flush_kill" /\ b.i = 1
    \/ a.pc = "flush_kill" /\ a.i < Len(ProcessesToKill)
          /\ b.pc = "flush_kill" /\ b.i = a.i + 1
    \/ a.pc = "flush_kill" /\ a.i = Len(ProcessesToKill) /\ b.pc = "flush_clean"
    \/ a.pc = "flush_clean" /\ b.pc = "done" /\ b.res.ok

C16_FallbackKillsExactName ==
    \A c \in Cmds :
        (Stopped1(c) /\ cmd[c].sawHandle = 0 /\ ~cmd[c].failed) =>
            /\ \A p \in cmd[c].hits : Image(p) = DaemonBin
            /\ LastDone(c) => DaemonNamed = {}

\* C17: a start() whose spawn fails returns the spawn error, has spawned
\* nothing, and leaves the handle absent and the lock released; a start()
\* that comes after it and finds the handle absent tries to spawn again
\* (it returns started or the spawn error, never already-running).
C17_SpawnFailureLeavesStopped ==
    \A c \in Cmds :
        /\ (Started1(c) /\ cmd[c].res = SpawnFailed) =>
              /\ ~cmd[c].res.ok
              /\ cmd[c].sawHandle = 0
              /\ cmd[c].left = 0
              /\ cmd[c].spawned = 0
              /\ lock # c
        /\ (Started1(c) /\ cmd[c].sawHandle = 0
              /\ cmd[c].res # Err("environment variable not found")) =>
              /\ cmd[c].res \in {Started, SpawnFailed}
              /\ cmd[c].res = Started => cmd[c].spawned # 0

\* A start() whose spawn failed, then a start() that spawned.
C17_Witness ==
    \E c, d \in Cmds :
        /\ c < d
        /\ Started1(c) /\ cmd[c].res = SpawnFailed
        /\ Started1(d) /\ cmd[d].res = Started
        /\ cmd[d].spawned # 0 /\ handle = cmd[d].spawned
        /\ lock = 0

\* The bytes of the first k chunks of the body.
SumFirst(k) == SumSeq(SubSeq(dl.body, 1, k))

\* C18: chunk i is in the destination file before its progress event is
\* emitted, and its event is emitted before chunk i+1 is asked for: when k
\* events have been emitted the file holds the first k chunks, at most one
\* chunk has been taken from the stream beyond them, and at most one chunk
\* is not yet written.
C18_WriteThenEmitThenNext ==
    (variant = "async" /\ dl.pc \in {"next", "write", "emit", "done"}
       /\ ~dl.writeErr /\ dl.res.msg # "Error writing to file") =>
        /\ dl.got - Len(dl.events) \in {0, 1}
        /\ dl.pc = "next" => dl.got = Len(dl.events)
        /\ dl.got > 0 => SumFirst(dl.got) - dl.fileLen <= dl.body[dl.got]
        /\ dl.events # <<>> => dl.fileLen >= SumFirst(Len(dl.events))

\* The live daemons that this supervisor spawned.
SpawnedAlive == {p \in Alive : procs[p].kind = "daemon"}

\* C19: whatever start(), stop() and flush() calls have been made, failed
\* kills included, at most one daemon spawned by the supervisor is alive.
C19_AtMostOneSpawnedAlive == Cardinality(SpawnedAlive) <= 1

\* C20: a start() that returns already-running without spawning found a
\* daemon alive: the one its handle stands for, or at least some process
\* named like the daemon.
C20_AlreadyRunningMeansAlive ==
    \A c \in Cmds :
        (Started1(c) /\ cmd[c].res = AlreadyRunning) =>
            /\ cmd[c].spawned = 0
            /\ cmd[c].sawNamed

\* C21: every command that was invoked eventually returns, and a handle
\* lock that is held is eventually free again, given that threads and
\* runnable tasks get to run and that a child that is waited for exits.
C21_EveryCommandReturns ==
    /\ \A c \in 1 .. MaxLive : (cmd[c].op # "none") ~> (cmd[c].pc = "done")
    /\ (lock # 0) ~> (lock = 0)
====
